---- MODULE Spec2Model ----
(***************************************************************************)
(* Model of src/port_scanner.py: class PortScanner.                        *)
(*                                                                         *)
(* A PortScanner holds a port list, a timeout, a thread count and three    *)
(* result lists.  run() submits one scan_port task per list element to a   *)
(* ThreadPoolExecutor(max_workers=threads), collects the futures in        *)
(* submission order and leaves the with-block (shutdown(wait=True)).       *)
(* scan_port runs on a pool thread: socket(), settimeout(), connect_ex(),  *)
(* close(), then an append to one of the scanner's lists.                  *)
(* main() parses the --ports argument into the port list (SpecResolve)     *)
(* and export_json writes the three lists to a file.                       *)
(***************************************************************************)
EXTENDS Integers, Sequences, FiniteSets, TLC

\* ---- bounds of the model ------------------------------------------------
MaxPort == 2        \* port numbers are drawn from 1..MaxPort
MaxPorts == 2       \* longest port list handed to the constructor
MaxThreads == 2     \* largest thread count handed to the constructor
MaxProbes == 4      \* scan_port calls on one scanner, over all its run() calls
MaxSpecLen == 5     \* longest --ports argument handed to main()

PortIds == 1..MaxPort

\* timeout argument: negative, zero (non-blocking socket) and positive
TimeoutValues == {-1, 0, 1}

\* What the network does with one connect attempt.
\*   accept      - the SYN is answered, the connection establishes
\*   refuse      - the SYN is answered by RST
\*   silent      - nothing comes back within the timeout
\*   unreachable - the kernel has no route to the target
\*   dns_fail    - the target name does not resolve
NetResponse == {"accept", "refuse", "silent", "unreachable", "dns_fail"}

\* characters a --ports argument is made of
Digits == {"0", "3", "5", "7"}
SpecChars == Digits \cup {"-", ","}

VARIABLES
  argv,             \* main(): args.ports, a string
  parsed,           \* main(): how the parsing of args.ports ended
  ports,            \* self.ports
  timeout,          \* self.timeout
  threads,          \* self.threads
  open_ports,       \* self.open_ports
  closed_ports,     \* self.closed_ports
  filtered_ports,   \* self.filtered_ports
  pc,               \* position of the caller of run()
  nprobes,          \* scan_port calls submitted so far, over all run() calls
  futures,          \* run(): the futures list, one record per submitted task
  queue,            \* the executor's work queue (task indices, FIFO)
  results,          \* run(): the results list
  worker,           \* per pool thread: position inside scan_port
  socks,            \* per task of the current run: its socket
  seen,             \* per port: what its probes met so far (observation only)
  exported          \* the file export_json wrote

vars == <<argv, parsed, ports, timeout, threads, open_ports, closed_ports, filtered_ports,
          pc, nprobes, futures, queue, results, worker, socks, seen, exported>>

\* what a PortScanner is constructed from; run() and scan_port only read it
config == <<argv, parsed, ports, timeout, threads>>
buckets == <<open_ports, closed_ports, filtered_ports>>

\* ---- helpers -------------------------------------------------------------
RECURSIVE SeqsUpTo(_, _)
SeqsUpTo(S, n) ==
  IF n = 0 THEN {<<>>}
  ELSE LET shorter == SeqsUpTo(S, n - 1)
       IN shorter \cup {Append(s, x) : s \in {t \in shorter : Len(t) = n - 1}, x \in S}

Range(s) == {s[k] : k \in 1..Len(s)}

\* ---- the thread pool -----------------------------------------------------
\* Pool threads that can exist in any configuration of the model.
WorkerIds == 1..(MaxThreads + 1)

\* variant: the pool starts one thread more than max_workers
WorkersOneMore == 1..(threads + 1)

\* ThreadPoolExecutor(max_workers=self.threads): the threads of this pool.
Workers == 1..threads

IdleWorker == [pc |-> "idle", task |-> 0, result |-> 0, bucket |-> "none"]

\* ---- scan_port -----------------------------------------------------------
\* Outcome of sock.connect_ex((target, port)) on a socket whose timeout was
\* set to t: C-level connect errors come back as the errno, a timeout
\* included (EWOULDBLOCK); only address resolution raises.
\*   0 connected, 111 ECONNREFUSED, 11 EWOULDBLOCK, 101 ENETUNREACH,
\*   115 EINPROGRESS (non-blocking socket, connect still under way)
ConnectEx(t, r) ==
  CASE r = "dns_fail"    -> {[raised |-> "gaierror", code |-> 0]}
    [] r = "unreachable" -> {[raised |-> "none", code |-> 101]}
    [] r = "silent"      -> IF t = 0 THEN {[raised |-> "none", code |-> 115]}
                            ELSE {[raised |-> "none", code |-> 11]}
    [] r = "accept"      -> IF t = 0
                            THEN {[raised |-> "none", code |-> 0],
                                  [raised |-> "none", code |-> 115]}
                            ELSE {[raised |-> "none", code |-> 0]}
    [] r = "refuse"      -> IF t = 0
                            THEN {[raised |-> "none", code |-> 111],
                                  [raised |-> "none", code |-> 115]}
                            ELSE {[raised |-> "none", code |-> 111]}

\* if result == 0: open_ports / OPEN, else: closed_ports / CLOSED
BucketOfResult(result) == IF result = 0 THEN "open" ELSE "closed"

StatusOfBucket(b) ==
  CASE b = "open"     -> "OPEN"
    [] b = "closed"   -> "CLOSED"
    [] b = "filtered" -> "FILTERED"

\* the dict scan_port returns after appending to bucket b
ReturnValue(port, b) == [port |-> port, status |-> StatusOfBucket(b)]

\* the dict scan_port returns from "except Exception as e"
ErrorValue(port, exc) == [port |-> port, status |-> "ERROR", error |-> exc]

\* a future that has no result yet (Future._result is None)
NoResult == [port |-> 0, status |-> "NONE"]

Done(t) == futures[t].state = "done"

\* ---- observation of the environment -------------------------------------
\* what one probe met: the exception raised by socket(), settimeout() or
\* connect_ex(), or the code connect_ex returned
Unseen == [raised |-> "unseen", code |-> 0]
Mixed == [raised |-> "mixed", code |-> 0]
Raised(exc) == [raised |-> exc, code |-> 0]

\* a probe of port p met o: seen[p] keeps o while every probe of p met the
\* same, and becomes Mixed otherwise
Observe(p, o) ==
  seen' = [seen EXCEPT ![p] = IF @ = Unseen \/ @ = o THEN o ELSE Mixed]

\* no file written yet
NoFile == [file |-> "none"]

\* self.target
Target == "host"

\* ---- construction --------------------------------------------------------
\* __init__: stores the arguments as given and creates three empty lists.
Init ==
  /\ argv = <<>>
  /\ parsed = "direct"
  /\ ports \in SeqsUpTo(PortIds, MaxPorts)
  /\ timeout \in TimeoutValues
  /\ threads \in 0..MaxThreads
  /\ open_ports = <<>>
  /\ closed_ports = <<>>
  /\ filtered_ports = <<>>
  /\ pc = "constructed"
  /\ nprobes = 0
  /\ futures = <<>>
  /\ queue = <<>>
  /\ results = <<>>
  /\ worker = [w \in WorkerIds |-> IdleWorker]
  /\ socks = <<>>
  /\ seen = [p \in PortIds |-> Unseen]
  /\ exported = NoFile

\* ---- main(): parsing of the --ports argument -------------------------------
\* s.split(sep): the pieces of s between the occurrences of sep
RECURSIVE Split(_, _)
Split(s, sep) ==
  IF \A k \in 1..Len(s) : s[k] # sep
  THEN <<s>>
  ELSE LET k == CHOOSE n \in 1..Len(s) :
                  s[n] = sep /\ \A m \in 1..(n - 1) : s[m] # sep
       IN <<SubSeq(s, 1, k - 1)>> \o Split(SubSeq(s, k + 1, Len(s)), sep)

\* int(tok) succeeds on a non-empty string of digits (no other character
\* int() accepts is in SpecChars), otherwise it raises ValueError
IsInt(tok) == Len(tok) > 0 /\ \A k \in 1..Len(tok) : tok[k] \in Digits

DigitValue(c) ==
  CASE c = "0" -> 0
    [] c = "3" -> 3
    [] c = "5" -> 5
    [] c = "7" -> 7

RECURSIVE IntOf(_)
IntOf(tok) ==
  IF Len(tok) = 0 THEN 0
  ELSE 10 * IntOf(SubSeq(tok, 1, Len(tok) - 1)) + DigitValue(tok[Len(tok)])

\* variant: the range stops one short of end
PyRangeShort(start, stop) ==
  IF stop - 1 <= start THEN <<>> ELSE [k \in 1..(stop - 1 - start) |-> start + k - 1]

\* list(range(start, stop))
PyRange(start, stop) ==
  IF stop <= start THEN <<>> ELSE [k \in 1..(stop - start) |-> start + k - 1]

\* main() before the parsing: any --ports string, no scanner yet
InitResolve ==
  /\ argv \in SeqsUpTo(SpecChars, MaxSpecLen)
  /\ parsed = "none"
  /\ ports = <<>>
  /\ timeout = 1
  /\ threads = 1
  /\ open_ports = <<>>
  /\ closed_ports = <<>>
  /\ filtered_ports = <<>>
  /\ pc = "main"
  /\ nprobes = 0
  /\ futures = <<>>
  /\ queue = <<>>
  /\ results = <<>>
  /\ worker = [w \in WorkerIds |-> IdleWorker]
  /\ socks = <<>>
  /\ seen = [p \in PortIds |-> Unseen]
  /\ exported = NoFile

\* if '-' in args.ports: start, end = map(int, args.ports.split('-'));
\* ports = list(range(start, end + 1))
\* The unpacking needs exactly two pieces and int() a number in each.
ParseRange ==
  /\ pc = "main"
  /\ parsed = "none"
  /\ \E k \in 1..Len(argv) : argv[k] = "-"
  /\ LET pieces == Split(argv, "-")
     IN IF Len(pieces) = 2 /\ IsInt(pieces[1]) /\ IsInt(pieces[2])
        THEN /\ ports' = PyRange(IntOf(pieces[1]), IntOf(pieces[2]) + 1)
             /\ parsed' = "ok"
        ELSE /\ parsed' = "ValueError"
             /\ UNCHANGED ports
  /\ UNCHANGED <<argv, timeout, threads, buckets, pc, nprobes, futures, queue,
                 results, worker, socks, seen, exported>>

\* else: ports = [int(p) for p in args.ports.split(',')]
ParseList ==
  /\ pc = "main"
  /\ parsed = "none"
  /\ \A k \in 1..Len(argv) : argv[k] # "-"
  /\ LET tokens == Split(argv, ",")
     IN IF \A k \in 1..Len(tokens) : IsInt(tokens[k])
        THEN /\ ports' = [k \in 1..Len(tokens) |-> IntOf(tokens[k])]
             /\ parsed' = "ok"
        ELSE /\ parsed' = "ValueError"
             /\ UNCHANGED ports
  /\ UNCHANGED <<argv, timeout, threads, buckets, pc, nprobes, futures, queue,
                 results, worker, socks, seen, exported>>

NextResolve ==
  \/ ParseRange
  \/ ParseList

SpecResolve == InitResolve /\ [][NextResolve]_vars


\* ---- run(): the calling thread ----------------------------------------
\* results = []; with ThreadPoolExecutor(max_workers=self.threads) as executor
\* The constructor of the executor raises ValueError for max_workers <= 0.
Run ==
  /\ pc \in {"constructed", "returned"}
  /\ nprobes + Len(ports) <= MaxProbes
  /\ nprobes' = nprobes + Len(ports)
  /\ results' = <<>>
  /\ futures' = <<>>
  /\ queue' = <<>>
  /\ socks' = <<>>
  /\ pc' = IF threads <= 0 THEN "raised"
           ELSE IF Len(ports) = 0 THEN "collecting" ELSE "submitting"
  /\ UNCHANGED <<config, seen, exported, buckets, worker>>

\* futures = [executor.submit(self.scan_port, port) for port in self.ports]
\* after the last element the for loop over futures begins
Submit ==
  /\ pc = "submitting"
  /\ Len(futures) < Len(ports)
  /\ futures' = Append(futures, [state |-> "pending", result |-> NoResult])
  /\ queue' = Append(queue, Len(futures) + 1)
  /\ socks' = Append(socks, "none")
  /\ pc' = IF Len(futures') = Len(ports) THEN "collecting" ELSE "submitting"
  /\ UNCHANGED <<config, seen, exported, buckets, nprobes, results, worker>>

\* variant: future.result() hands back whatever the future holds
ResultReadyNoWait(t) == TRUE

\* guard of future.result(): blocks until the future is done
ResultReady(t) == Done(t)

\* variant: the results are taken as the futures complete
CollectAsCompleted ==
  /\ pc = "collecting"
  /\ Len(results) < Len(futures)
  /\ \E t \in 1..Len(futures) :
       /\ Done(t)
       /\ futures[t].result \notin Range(results)
       /\ results' = Append(results, futures[t].result)
  /\ UNCHANGED <<config, seen, exported, buckets, pc, nprobes, futures, queue, worker, socks>>

\* for future in futures: results.append(future.result())
Collect ==
  /\ pc = "collecting"
  /\ Len(results) < Len(futures)
  /\ LET t == Len(results) + 1
     IN /\ ResultReady(t)
        /\ results' = Append(results, futures[t].result)
  /\ UNCHANGED <<config, seen, exported, buckets, pc, nprobes, futures, queue, worker, socks>>

\* leaving the with block: executor.shutdown(wait=True) joins the pool
\* threads; return results
Return ==
  /\ pc = "collecting"
  /\ Len(results) = Len(futures)
  /\ \A w \in Workers : worker[w].pc = "idle"
  /\ queue = <<>>
  /\ pc' = "returned"
  /\ UNCHANGED <<config, seen, exported, buckets, nprobes, futures, queue, results, worker, socks>>

\* ---- the pool threads ------------------------------------------------
\* variant: the exception escapes scan_port and fails the future
RaiseErrorEscapes(w, t, exc) ==
  /\ futures' = [futures EXCEPT ![t].state = "failed"]
  /\ worker' = [worker EXCEPT ![w] = IdleWorker]
  /\ UNCHANGED buckets

\* scan_port leaves through "except Exception as e": the future gets the
\* ERROR dict, nothing is appended, the socket is left as it is
RaiseError(w, t, exc) ==
  /\ futures' = [futures EXCEPT ![t] =
                   [state |-> "done", result |-> ErrorValue(ports[t], exc)]]
  /\ worker' = [worker EXCEPT ![w] = IdleWorker]
  /\ UNCHANGED buckets

\* scan_port leaves its try body with exception exc:
\* except socket.timeout goes on to filtered_ports.append(port),
\* except Exception returns the ERROR dict
Except(w, t, exc) ==
  IF exc = "timeout"
  THEN /\ worker' = [worker EXCEPT ![w] =
                       [IdleWorker EXCEPT !.pc = "appending", !.task = t,
                                          !.bucket = "filtered"]]
       /\ futures' = [futures EXCEPT ![t].state = "running"]
       /\ UNCHANGED buckets
  ELSE RaiseError(w, t, exc)

\* a pool thread takes the next work item and calls scan_port(port):
\* sock = socket.socket(AF_INET, SOCK_STREAM) succeeds, or raises OSError
\* when the process has no file descriptor left
Take(w) ==
  /\ w \in Workers
  /\ worker[w].pc = "idle"
  /\ queue # <<>>
  /\ queue' = Tail(queue)
  /\ LET t == Head(queue)
     IN \E ok \in BOOLEAN :
          IF ok
          THEN /\ socks' = [socks EXCEPT ![t] = "open"]
               /\ worker' = [worker EXCEPT ![w] =
                               [IdleWorker EXCEPT !.pc = "connect", !.task = t]]
               /\ futures' = [futures EXCEPT ![t].state = "running"]
               /\ UNCHANGED <<buckets, seen>>
          ELSE /\ Except(w, t, "OSError")
               /\ Observe(ports[t], Raised("OSError"))
               /\ UNCHANGED socks
  /\ UNCHANGED <<config, exported, pc, nprobes, results>>

\* sock.settimeout(self.timeout) raises ValueError for a negative timeout;
\* result = sock.connect_ex((self.target, port)); sock.close();
\* if result == 0: ... else: ... and the thread enters
\* self.<bucket>.append(port); no lock is taken.
\* An exception leaves the try body before sock.close().
Connect(w) ==
  /\ w \in Workers
  /\ worker[w].pc = "connect"
  /\ LET t == worker[w].task
     IN IF timeout < 0
        THEN /\ Except(w, t, "ValueError")
             /\ Observe(ports[t], Raised("ValueError"))
             /\ UNCHANGED socks
        ELSE \E r \in NetResponse : \E out \in ConnectEx(timeout, r) :
               /\ Observe(ports[t], out)
               /\ IF out.raised # "none"
                  THEN /\ Except(w, t, out.raised)
                       /\ UNCHANGED socks
                  ELSE /\ socks' = [socks EXCEPT ![t] = "closed"]
                       /\ worker' = [worker EXCEPT ![w].pc = "appending",
                                                   ![w].result = out.code,
                                                   ![w].bucket = BucketOfResult(out.code)]
                       /\ UNCHANGED <<futures, buckets>>
  /\ UNCHANGED <<config, exported, pc, nprobes, queue, results>>

\* variant: the bucket is assigned the new port instead of extended by it
AppendToOverwrite(b, port) ==
  /\ open_ports' = IF b = "open" THEN <<port>> ELSE open_ports
  /\ closed_ports' = IF b = "closed" THEN <<port>> ELSE closed_ports
  /\ filtered_ports' = IF b = "filtered" THEN <<port>> ELSE filtered_ports

\* variant: the else branch appends to open_ports as well
AppendToWrong(b, port) ==
  /\ open_ports' = IF b \in {"open", "closed"} THEN Append(open_ports, port)
                   ELSE open_ports
  /\ closed_ports' = closed_ports
  /\ filtered_ports' = IF b = "filtered" THEN Append(filtered_ports, port)
                       ELSE filtered_ports

\* variant: the append is dropped, scan_port only returns its dict
AppendToNothing(b, port) == UNCHANGED buckets

\* what self.<bucket>.append(port) does to the three lists
AppendTo(b, port) ==
  /\ open_ports' = IF b = "open" THEN Append(open_ports, port) ELSE open_ports
  /\ closed_ports' = IF b = "closed" THEN Append(closed_ports, port) ELSE closed_ports
  /\ filtered_ports' = IF b = "filtered" THEN Append(filtered_ports, port)
                       ELSE filtered_ports

\* the append takes effect; return {'port': port, 'status': ...}
EndAppend(w) ==
  /\ w \in Workers
  /\ worker[w].pc = "appending"
  /\ LET t == worker[w].task
         b == worker[w].bucket
     IN /\ AppendTo(b, ports[t])
        /\ futures' = [futures EXCEPT ![t] =
                         [state |-> "done", result |-> ReturnValue(ports[t], b)]]
  /\ worker' = [worker EXCEPT ![w] = IdleWorker]
  /\ UNCHANGED <<config, seen, exported, pc, nprobes, queue, results, socks>>

\* a socket object that scan_port left unclosed is finalized by the
\* interpreter at some point after the call has returned
Finalize(t) ==
  /\ t \in 1..Len(futures)
  /\ Done(t)
  /\ socks[t] = "open"
  /\ socks' = [socks EXCEPT ![t] = "closed"]
  /\ UNCHANGED <<config, seen, exported, buckets, pc, nprobes, futures, queue, results, worker>>

\* ---- cancellation ------------------------------------------------------
\* run() has no cancellation of its own.  A signal to the process raises
\* KeyboardInterrupt in the calling thread, inside the with block: the
\* block's exit runs executor.shutdown(wait=True), which lets the pool
\* threads work off the queue.
Interrupt ==
  /\ pc \in {"submitting", "collecting"}
  /\ pc' = "interrupted"
  /\ UNCHANGED <<config, seen, exported, buckets, nprobes, futures, queue, results,
                 worker, socks>>

\* the pool threads are joined; KeyboardInterrupt leaves run(), the local
\* results list is dropped
Unwind ==
  /\ pc = "interrupted"
  /\ \A w \in Workers : worker[w].pc = "idle"
  /\ queue = <<>>
  /\ pc' = "interrupt_raised"
  /\ results' = <<>>
  /\ UNCHANGED <<config, seen, exported, buckets, nprobes, futures, queue, worker, socks>>

\* ---- export_json ---------------------------------------------------------
\* data = {'target': ..., 'open_ports': ..., 'closed_ports': ...,
\*         'filtered_ports': ...}
ExportData ==
  [target |-> Target,
   open_ports |-> open_ports,
   closed_ports |-> closed_ports,
   filtered_ports |-> filtered_ports]

\* main(): scanner.export_json(args.output) after scanner.run(), as the
\* last call on the scanner; json.dump(data, f)
ExportJson ==
  /\ pc = "returned"
  /\ exported' = ExportData
  /\ pc' = "exported"
  /\ UNCHANGED <<config, seen, buckets, nprobes, futures, queue, results, worker, socks>>

Next ==
  \/ Run
  \/ Submit
  \/ Collect
  \/ Return
  \/ Interrupt
  \/ Unwind
  \/ ExportJson
  \/ \E w \in WorkerIds : Take(w)
  \/ \E w \in WorkerIds : Connect(w)
  \/ \E w \in WorkerIds : EndAppend(w)
  \/ \E t \in 1..MaxPorts : Finalize(t)

Spec == Init /\ [][Next]_vars

TypeOK ==
  /\ ports \in SeqsUpTo(PortIds, MaxPorts)
  /\ pc \in {"main", "constructed", "submitting", "collecting", "returned", "raised",
            "interrupted", "interrupt_raised", "exported"}
  /\ Len(futures) <= Len(ports)
  /\ Len(results) <= Len(futures)

\* ---- properties ----------------------------------------------------------
Statuses == {"OPEN", "CLOSED", "FILTERED", "ERROR"}

\* ports of the returned results whose status is ERROR
ErrorPorts == {results[k].port : k \in {n \in 1..Len(results) : results[n].status = "ERROR"}}

\* pool threads that hold a socket they created and have not closed yet
InFlight == {w \in WorkerIds : worker[w].pc = "connect"}

\* pool threads that are inside an append to one of the three lists
Appending == {w \in WorkerIds : worker[w].pc = "appending"}

\* C1: after run() has returned, the three buckets and the ports of the ERROR
\* results are pairwise disjoint and together are exactly the input ports.
C1_DisjointUnion ==
  pc = "returned" =>
    LET O == Range(open_ports)
        C == Range(closed_ports)
        F == Range(filtered_ports)
        E == ErrorPorts
    IN /\ O \cap C = {} /\ O \cap F = {} /\ O \cap E = {}
       /\ C \cap F = {} /\ C \cap E = {} /\ F \cap E = {}
       /\ O \cup C \cup F \cup E = Range(ports)

\* C2: the probes holding an open socket never outnumber the thread count,
\* and a submitted task that no pool thread has taken yet waits in the queue.
C2_ConcurrencyBound ==
  /\ Cardinality(InFlight) <= threads
  /\ \A t \in 1..Len(futures) : futures[t].state = "pending" <=> t \in Range(queue)

C2_Witness ==
  /\ threads >= 1
  /\ Cardinality(InFlight) = threads
  /\ queue # <<>>

\* C3: when run() has returned, results has one entry per input port, the
\* k-th entry being a finished outcome of the k-th port, every future is done,
\* the queue is empty and no pool thread is inside scan_port.
C3_BlockingComplete ==
  pc = "returned" =>
    /\ Len(results) = Len(ports)
    /\ \A k \in 1..Len(results) :
         /\ results[k].port = ports[k]
         /\ results[k].status \in Statuses
    /\ \A t \in 1..Len(futures) : Done(t)
    /\ queue = <<>>
    /\ \A w \in WorkerIds : worker[w].pc = "idle"

C3_Witness ==
  /\ pc = "returned"
  /\ threads = 2
  /\ Len(results) = 2

\* C4: at no time are two pool threads inside an append to the buckets.
C4_SerializedMerge == Cardinality(Appending) <= 1

MergedAs(res) ==
  /\ open_ports' = IF res.status = "OPEN" THEN Append(open_ports, res.port)
                   ELSE open_ports
  /\ closed_ports' = IF res.status = "CLOSED" THEN Append(closed_ports, res.port)
                     ELSE closed_ports
  /\ filtered_ports' = IF res.status = "FILTERED" THEN Append(filtered_ports, res.port)
                       ELSE filtered_ports

C6_TimeoutFiltered ==
  \A w \in WorkerIds :
    (worker[w].pc = "appending" /\ worker[w].result = 11)
      => worker[w].bucket = "filtered"

\* C7: with a positive timeout, a connect attempt that ended otherwise than
\* by a timeout goes to closed_ports only when it was refused (ECONNREFUSED);
\* no other transport failure ends in closed_ports.
C7_ClosedOnlyRefused ==
  timeout > 0 =>
    \A w \in WorkerIds :
      (/\ worker[w].pc = "appending"
       /\ worker[w].bucket = "closed"
       /\ worker[w].result # 11)
        => worker[w].result = 111

\* C8: once a scan_port call has returned, no socket it opened is open.
C8_SocketClosed ==
  \A t \in 1..Len(futures) : Done(t) => socks[t] # "open"

\* steps that carry a run() forward
RunStep ==
  \/ Submit
  \/ Collect
  \/ Return
  \/ \E w \in WorkerIds : Take(w) \/ Connect(w) \/ EndAppend(w)

\* C9: with a valid thread count run() never raises and never gets stuck,
\* whatever probes fail; no future ever fails with an exception, a failed
\* probe's future holds an ERROR dict with the cause, and the dict is the
\* entry of the returned list at the port's position.
C9_ErrorNeverAborts ==
  /\ threads >= 1 => pc # "raised"
  /\ pc \in {"submitting", "collecting"} => ENABLED RunStep
  /\ \A t \in 1..Len(futures) : futures[t].state \in {"pending", "running", "done"}
  /\ \A t \in 1..Len(futures) :
       (Done(t) /\ futures[t].result.status = "ERROR") =>
          /\ futures[t].result.error \in {"OSError", "gaierror", "ValueError"}
          /\ t <= Len(results) => results[t] = futures[t].result
  /\ pc = "returned" => Len(results) = Len(ports)

C9_Witness ==
  /\ pc = "returned"
  /\ Len(results) = 2
  /\ \A k \in 1..Len(results) : results[k].status = "ERROR"

\* C10: a scanner with an empty port list never returns from run().
C10_EmptyRejected == Len(ports) = 0 => pc # "returned"

\* ---- properties of the scan, continued -------------------------------------
\* C11: on a scanner with a non-positive timeout or a thread count below 1
\* no probe ever starts, no port gets into a bucket and no per-port outcome
\* is collected.
C11_InvalidConfigRejected ==
  (timeout <= 0 \/ threads < 1) =>
    /\ \A t \in 1..Len(futures) : futures[t].state = "pending"
    /\ open_ports = <<>> /\ closed_ports = <<>> /\ filtered_ports = <<>>
    /\ results = <<>>

\* every probe of every input port met the same thing
FixedResponse == \A p \in Range(ports) : seen[p] # Mixed

\* C15: when every probe of a port met the same connect outcome, the buckets
\* after run() are, as sets, a function of the port list and these outcomes:
\* open the ports whose connect returned 0, closed the ports whose connect
\* returned an error code, filtered the ports whose connect raised a timeout.
C15_ScheduleIndependent ==
  (pc = "returned" /\ FixedResponse) =>
    /\ Range(open_ports) =
         {p \in Range(ports) : seen[p].raised = "none" /\ seen[p].code = 0}
    /\ Range(closed_ports) =
         {p \in Range(ports) : seen[p].raised = "none" /\ seen[p].code # 0}
    /\ Range(filtered_ports) =
         {p \in Range(ports) : seen[p].raised = "timeout"}

C15_Witness ==
  /\ pc = "returned"
  /\ FixedResponse
  /\ threads = 2
  /\ ports = <<1, 2>>
  /\ open_ports = <<2, 1>>

\* C16: every run() starts from empty buckets, and once run() has returned
\* the buckets do not change while no new run() is under way.
C16_FreshPerRun ==
  [][/\ (pc \in {"constructed", "returned"} /\ pc' \in {"submitting", "collecting"})
          => (open_ports' = <<>> /\ closed_ports' = <<>> /\ filtered_ports' = <<>>)
     /\ (pc = "returned" /\ pc' \in {"returned", "exported"})
          => buckets' = buckets]_vars

\* C17: after the cancellation signal no queued probe is started, so the
\* ports not yet probed get into no bucket.
C17_CancelStopsAdmission ==
  [][pc = "interrupted" => queue' = queue]_vars

\* (port, message) of the results that ended in ERROR
ErrorPairs ==
  {<<results[k].port, results[k].error>> :
     k \in {n \in 1..Len(results) : results[n].status = "ERROR"}}

\* C18: the exported mapping has exactly the keys target, open_ports,
\* closed_ports, filtered_ports and errors, errors being the (port, message)
\* pairs of the probes that ended in ERROR.
C18_ExportShape ==
  pc = "exported" =>
    /\ DOMAIN exported = {"target", "open_ports", "closed_ports",
                          "filtered_ports", "errors"}
    /\ Range(exported.errors) = ErrorPairs

\* C19: the i-th entry of results is the outcome of the i-th submitted task,
\* hence of the i-th input port, whatever the order of completion.
C19_SubmissionOrder ==
  pc \in {"collecting", "returned", "exported"} =>
    \A i \in 1..Len(results) :
      /\ Done(i)
      /\ results[i] = futures[i].result
      /\ results[i].port = ports[i]

C19_Witness ==
  /\ pc = "returned"
  /\ ports = <<1, 2>>
  /\ closed_ports = <<2, 1>>
  /\ results[1].port = 1
  /\ results[2].port = 2

\* number of occurrences of p in the list s
RECURSIVE Count(_, _)
Count(s, p) ==
  IF Len(s) = 0 THEN 0
  ELSE Count(Tail(s), p) + (IF Head(s) = p THEN 1 ELSE 0)

\* tasks of the current run that returned status st for port p
Returned(p, st) ==
  {t \in 1..Len(futures) : Done(t) /\ ports[t] = p /\ futures[t].result.status = st}

\* the first run() on a scanner is under way or over
FirstRun == pc \notin {"main", "constructed"} /\ nprobes = Len(ports)

\* C20: in the single run() of a scanner, each bucket lists a port once per
\* scan_port call that returned the bucket's status for it (OPEN, CLOSED,
\* FILTERED), a call that returned ERROR is in none, and when run() has
\* returned the three lengths add up to the number of non-ERROR results.
C20_StatusMatchesBucket ==
  FirstRun =>
    /\ \A p \in PortIds :
         /\ Count(open_ports, p) = Cardinality(Returned(p, "OPEN"))
         /\ Count(closed_ports, p) = Cardinality(Returned(p, "CLOSED"))
         /\ Count(filtered_ports, p) = Cardinality(Returned(p, "FILTERED"))
    /\ pc = "returned" =>
         Len(open_ports) + Len(closed_ports) + Len(filtered_ports)
           = Cardinality({k \in 1..Len(results) : results[k].status # "ERROR"})

C20_Witness ==
  /\ pc = "returned"
  /\ FirstRun
  /\ Len(open_ports) = 1
  /\ Len(closed_ports) = 0
  /\ \E k \in 1..Len(results) : results[k].status = "ERROR"
  /\ \E k \in 1..Len(results) : results[k].status = "OPEN"

\* ---- properties of the parsing ---------------------------------------------
\* port numbers a port specification may name
ValidPorts == 1..65535

IsRangeSpec == \E k \in 1..Len(argv) : argv[k] = "-"

NoDuplicates(s) == \A i, j \in 1..Len(s) : s[i] = s[j] => i = j

\* s without the later occurrences of its elements
RECURSIVE FirstSeen(_)
FirstSeen(s) ==
  IF Len(s) = 0 THEN <<>>
  ELSE LET front == FirstSeen(SubSeq(s, 1, Len(s) - 1))
       IN IF s[Len(s)] \in Range(front) THEN front ELSE Append(front, s[Len(s)])

\* C12: a --ports argument that names a port outside 1..65535, or a range
\* with start > end, is not resolved to a port list.
C12_OutOfRangeRejected ==
  parsed = "ok" =>
    /\ \A k \in 1..Len(ports) : ports[k] \in ValidPorts
    /\ IsRangeSpec =>
         LET pieces == Split(argv, "-")
         IN IntOf(pieces[1]) <= IntOf(pieces[2])

\* C13: the port list resolved from a comma-separated argument has no
\* duplicates and keeps the tokens in first-seen order.
C13_Deduplicated ==
  (parsed = "ok" /\ ~IsRangeSpec) =>
    LET tokens == Split(argv, ",")
    IN /\ NoDuplicates(ports)
       /\ ports = FirstSeen([k \in 1..Len(tokens) |-> IntOf(tokens[k])])

\* C14: an argument "a-b" with 1 <= a <= b <= 65535 is resolved, to exactly
\* b - a + 1 ports that start at a, end at b and rise by one.
C14_RangeAscending ==
  (/\ parsed # "none"
   /\ IsRangeSpec
   /\ Len(Split(argv, "-")) = 2
   /\ IsInt(Split(argv, "-")[1])
   /\ IsInt(Split(argv, "-")[2])
   /\ IntOf(Split(argv, "-")[1]) \in ValidPorts
   /\ IntOf(Split(argv, "-")[2]) \in ValidPorts
   /\ IntOf(Split(argv, "-")[1]) <= IntOf(Split(argv, "-")[2]))
    => LET a == IntOf(Split(argv, "-")[1])
           b == IntOf(Split(argv, "-")[2])
       IN /\ parsed = "ok"
          /\ Len(ports) = b - a + 1
          /\ ports[1] = a
          /\ ports[Len(ports)] = b
          /\ \A k \in 1..(Len(ports) - 1) : ports[k + 1] = ports[k] + 1

C14_Witness ==
  /\ parsed = "ok"
  /\ argv = <<"3", "-", "3", "5">>
  /\ Len(ports) = 33

====
